---- MODULE Spec2Model ----
(***************************************************************************)
(* Session thunks of gui/src/redux/thunks/session.ts.                      *)
(*                                                                         *)
(* JavaScript runs every continuation to completion: a thunk body runs     *)
(* without interruption from one await of a messenger request to the next. *)
(* `cur` is the thread whose continuation is running (0 when the event     *)
(* loop is idle); a thread is a stack of thunk frames, the top one being   *)
(* the thunk that is executing or awaiting a messenger response.           *)
(***************************************************************************)
EXTENDS Integers, Sequences, FiniteSets, TLC

(***************************************************************************)
(* Bounds of the model.                                                    *)
(***************************************************************************)
MaxOps == 1          \* operations dispatched by the UI in one behaviour
NumStored == 2       \* session ids the remote store may hold initially
MaxLines == 3        \* lines of a text handed to the title deriver
ShortLen == 1        \* short line lengths 0..ShortLen
ExtraLen == 2        \* long line lengths up to MAX_TITLE_LENGTH + ExtraLen

(***************************************************************************)
(* Program constants.                                                      *)
(***************************************************************************)
MAX_TITLE_LENGTH == 100

\* Text is a sequence of one-character strings.
NEW_SESSION_TITLE == <<"N", "e", "w", " ", "S", "e", "s", "s", "i", "o", "n">>

Undef == "<undefined>"      \* an absent string-valued argument
NoLimit == 0                \* an absent limit

(***************************************************************************)
(* Text helpers: String.prototype.split("\n"), trim() and slice().         *)
(***************************************************************************)
Whitespace == {" ", "\t", "\r", "\n"}

\* text.split("\n"): the segments between consecutive newlines
SplitLines(t) ==
    LET nl == {i \in 1..Len(t) : t[i] = "\n"}
        k == Cardinality(nl)
        pos(j) == CHOOSE i \in nl : Cardinality({x \in nl : x < i}) = j - 1
    IN  [j \in 1..(k + 1) |->
            SubSeq(t, IF j = 1 THEN 1 ELSE pos(j - 1) + 1,
                      IF j = k + 1 THEN Len(t) ELSE pos(j) - 1)]

\* l.trim() !== ""
TrimNonEmpty(l) == \E i \in 1..Len(l) : l[i] \notin Whitespace

\* text.slice(0, n)
Slice0(text, n) == SubSeq(text, 1, IF n < Len(text) THEN n ELSE Len(text))

\* renderChatMessage(message) of core/util/messageContent: the text of the
\* message content.
renderChatMessage(message) == message.content

getChatTitleFromMessageSliceAll(message) ==
    LET nonBlank == SelectSeq(SplitLines(renderChatMessage(message)), TrimNonEmpty)
        text == IF nonBlank = <<>> THEN <<>> ELSE nonBlank[Len(nonBlank)]
    IN  IF Len(text) > MAX_TITLE_LENGTH
        THEN Slice0(text, MAX_TITLE_LENGTH) \o <<".", ".", ".">>
        ELSE text

getChatTitleFromMessage(message) ==
    LET nonBlank == SelectSeq(SplitLines(renderChatMessage(message)), TrimNonEmpty)
        \* .slice(-1)[0] || ""
        text == IF nonBlank = <<>> THEN <<>> ELSE nonBlank[Len(nonBlank)]
    IN  IF Len(text) > MAX_TITLE_LENGTH
        THEN Slice0(text, MAX_TITLE_LENGTH - 3) \o <<".", ".", ".">>
        ELSE text

(***************************************************************************)
(* Data of the model.                                                      *)
(***************************************************************************)
Msg(role, content) == [role |-> role, content |-> content]

\* Histories an active session may hold when the model starts.
HistEmpty == <<>>
HistUser == <<Msg("user", <<"h", "i">>)>>
HistBlank == <<Msg("user", <<" ">>)>>
HistBlankAsst == <<Msg("user", <<" ">>), Msg("assistant", <<"o", "k">>)>>
HistLinesAsst == <<Msg("user", <<"a", "\n", "b", "\n">>), Msg("assistant", <<"o", "k">>)>>
HistAsstEmpty == <<Msg("user", <<"h", "i">>), Msg("assistant", <<>>)>>

NonEmptyHistories == {HistUser, HistBlank, HistBlankAsst, HistLinesAsst, HistAsstEmpty}
BlankFirstHistories == {HistBlank, HistBlankAsst}

StoredIds == 1..NumStored
StoredTitle(i) == <<"T">> \o [k \in 1..i |-> "i"]
StoredDir(i) == IF i = 1 THEN "w" ELSE ""
StoredSession(i) ==
    [sessionId |-> i, title |-> StoredTitle(i),
     workspaceDirectory |-> StoredDir(i), history |-> HistUser]

EditedTitle == <<"E">>        \* a title typed by the user
DescribedTitle == <<"D">>     \* a title returned by chatDescriber/describe
WorkspaceDirs == <<"w">>      \* the directories the IDE reports

NoSession == [sessionId |-> 0, title |-> <<>>, workspaceDirectory |-> "", history |-> <<>>]

(***************************************************************************)
(* The elements of a set of session ids, most recent (greatest) first.     *)
(***************************************************************************)
RECURSIVE Descending(_)
Descending(S) ==
    IF S = {} THEN <<>>
    ELSE LET m == CHOOSE x \in S : \A y \in S : y <= x
         IN  <<m>> \o Descending(S \ {m})

SeqMap(f(_), s) == [i \in 1..Len(s) |-> f(s[i])]

(***************************************************************************)
(* Session store (sessionSlice): state.session and its reducers.           *)
(***************************************************************************)
MetaOf(s) ==
    [sessionId |-> s.sessionId, title |-> s.title,
     workspaceDirectory |-> s.workspaceDirectory]

\* newSession(): a fresh empty session under a new id
newSessionEmpty(st, freshId) ==
    [st EXCEPT !.id = freshId, !.title = NEW_SESSION_TITLE, !.history = <<>>]

\* newSession(session): the fetched session replaces the active one
newSessionFrom(st, s) ==
    [st EXCEPT !.id = s.sessionId, !.title = s.title, !.history = s.history]

deleteSessionMetadata(st, id) ==
    [st EXCEPT !.allSessionMetadata =
        SelectSeq(st.allSessionMetadata, LAMBDA m : m.sessionId # id)]

updateSessionMetadata(st, upd) ==
    [st EXCEPT !.allSessionMetadata =
        [i \in 1..Len(st.allSessionMetadata) |->
            IF st.allSessionMetadata[i].sessionId = upd.sessionId
            THEN upd ELSE st.allSessionMetadata[i]]]

setAllSessionMetadata(st, list) == [st EXCEPT !.allSessionMetadata = list]

setIsSessionMetadataLoading(st, b) == [st EXCEPT !.isSessionMetadataLoading = b]

(***************************************************************************)
(* Remote store behind the messenger: sessions, most recent first.         *)
(***************************************************************************)
HasSession(store, id) == \E i \in 1..Len(store) : store[i].sessionId = id

FindSession(store, id) ==
    store[CHOOSE i \in 1..Len(store) : store[i].sessionId = id]

\* history/list {limit, workspaceDirectory}
ListRemote(store, limit, wd) ==
    LET scoped == IF wd \in {Undef, ""} THEN store
                  ELSE SelectSeq(store, LAMBDA s : s.workspaceDirectory = wd)
        cut == IF limit = NoLimit \/ limit >= Len(scoped) THEN scoped
               ELSE SubSeq(scoped, 1, limit)
    IN  SeqMap(MetaOf, cut)

\* history/delete {id}
DeleteRemote(store, id) == SelectSeq(store, LAMBDA s : s.sessionId # id)

\* history/save session: replaces the stored session of that id, or adds
\* the session as the most recent one
SaveRemote(store, s) ==
    IF HasSession(store, s.sessionId)
    THEN [i \in 1..Len(store) |->
            IF store[i].sessionId = s.sessionId THEN s ELSE store[i]]
    ELSE <<s>> \o store

(***************************************************************************)
(* State.                                                                  *)
(***************************************************************************)
VARIABLES
    session,     \* state.session: id, title, history, allSessionMetadata, isSessionMetadataLoading
    config,      \* state.config: disableSessionTitles, selectedChatModel
    remote,      \* the sessions the remote store holds, most recent first
    threads,     \* thunk invocations in flight: thread id -> call stack and request log
    cur,         \* the thread whose continuation is running, 0 when idle
    nextId,      \* the next fresh session id newSession() hands out
    opsStarted,  \* operations dispatched by the UI so far
    faults,      \* messenger requests that did not succeed so far
    last,        \* the thunk that returned in the last step, if any
    text,        \* title deriver: the rendered message text
    derived      \* title deriver: the derived title, once computed

vars == <<session, config, remote, threads, cur, nextId, opsStarted, faults,
          last, text, derived>>

MaxFaults == 1       \* messenger requests that may fail in one behaviour

NoRet == [status |-> "none", payload |-> <<>>]
NoState == [id |-> 0, title |-> <<>>, history |-> <<>>,
            allSessionMetadata |-> <<>>, isSessionMetadataLoading |-> FALSE]

\* A frame of a thunk: its position and its arguments and locals.
Frame(op, pc) ==
    [op |-> op, pc |-> pc, id |-> 0, save |-> FALSE, openNew |-> FALSE,
     gen |-> FALSE, limit |-> NoLimit, wd |-> Undef, session |-> NoSession,
     state |-> NoState, title |-> <<>>, ret |-> NoRet,
     saved |-> "none", opened |-> 0,
     pre |-> NoState, preRemote |-> <<>>, logStart |-> 0]

\* A messenger request as sent, and how it was answered.
Req(type) ==
    [type |-> type, id |-> 0, limit |-> NoLimit, wd |-> Undef, session |-> NoSession,
     resp |-> "pending", content |-> <<>>]

NoLast == [op |-> "none", status |-> "none", payload |-> <<>>, nested |-> FALSE,
           frame |-> Frame("none", "none"), log |-> <<>>, spawnedBy |-> 0]

Stack(t) == threads[t].stack
Top(t) == Stack(t)[Len(Stack(t))]
Running(t) == t \in DOMAIN threads /\ cur = t
AwaitingAlone(t, op, pc) ==
    /\ t \in DOMAIN threads /\ cur = 0 /\ Top(t).op = op /\ Top(t).pc = pc
    /\ DOMAIN threads = {t}

Awaiting(t, op, pc) ==
    t \in DOMAIN threads /\ cur = 0 /\ Top(t).op = op /\ Top(t).pc = pc
At(t, op, pc) == Running(t) /\ Top(t).op = op /\ Top(t).pc = pc

ReplaceTop(stk, f) == [stk EXCEPT ![Len(stk)] = f]

\* the thread table once the pending request of thread t is answered with o
Answered(t, o) ==
    [threads EXCEPT ![t].log = [@ EXCEPT ![Len(@)].resp = o]]

\* the same, the answer carrying the content c
AnsweredWith(t, o, c) ==
    [threads EXCEPT ![t].log = [@ EXCEPT ![Len(@)].resp = o, ![Len(@)].content = c]]

\* the running thunk of thread t moves on inside the same continuation
GotoIn(thr, t, f) ==
    /\ threads' = [thr EXCEPT ![t].stack = ReplaceTop(@, f)]
    /\ cur' = t
    /\ last' = NoLast

\* await dispatch(thunk(arg)): the callee runs at once, the caller resumes at f.pc
CallIn(thr, t, f, callee) ==
    /\ threads' = [thr EXCEPT ![t].stack =
            Append(ReplaceTop(@, f),
                   [callee EXCEPT !.pre = session', !.preRemote = remote',
                                  !.logStart = Len(thr[t].log)])]
    /\ cur' = t
    /\ last' = NoLast

Call(t, f, callee) == CallIn(threads, t, f, callee)

\* await extra.ideMessenger.request(...): the thread suspends at f.pc
RequestIn(thr, t, f, req) ==
    /\ threads' = [thr EXCEPT ![t].stack = ReplaceTop(@, f),
                              ![t].log = Append(@, req)]
    /\ cur' = 0
    /\ last' = NoLast

Request(t, f, req) == RequestIn(threads, t, f, req)

\* The thunk on top of thread t settles, f being its frame: the awaiting
\* caller gets the action {status, payload}; a thread without a caller ends.
ReturnIn(thr, t, f, status, payload) ==
    LET stk == thr[t].stack
        n == Len(stk)
        done == [op |-> f.op, status |-> status, payload |-> payload,
                 nested |-> n > 1, frame |-> f,
                 log |-> SubSeq(thr[t].log, f.logStart + 1, Len(thr[t].log)),
                 spawnedBy |-> thr[t].spawnedBy]
    IN  /\ last' = done
        /\ IF n > 1
           THEN /\ threads' = [thr EXCEPT ![t].stack =
                        ReplaceTop(SubSeq(stk, 1, n - 1),
                            [stk[n - 1] EXCEPT !.ret =
                                [status |-> status, payload |-> payload]])]
                /\ cur' = t
           ELSE /\ threads' = [u \in DOMAIN thr \ {t} |-> thr[u]]
                /\ cur' = 0

Return(t, status, payload) == ReturnIn(threads, t, Top(t), status, payload)

\* the smallest thread id not in use
FreshTid == CHOOSE n \in 1..(Cardinality(DOMAIN threads) + 1) : n \notin DOMAIN threads

\* unwrapResult(result) throws when the action is a rejected one
unwrapResultThrows(ret) == ret.status = "rejected"

(***************************************************************************)
(* Messenger Port: how a request may be answered.                          *)
(***************************************************************************)
Tagged(status, content) == [kind |-> "tagged", status |-> status, content |-> content]

\* "success" and "error" are tagged responses, "throw" a rejected promise
Outcomes == IF faults < MaxFaults THEN {"success", "error", "throw"} ELSE {"success"}

\* the answers to a request whose caller treats a rejected promise and an
\* error status alike (it throws on the status, and catches neither)
TaggedOutcomes == Outcomes \ {"throw"}

Count(o) == faults' = IF o = "success" THEN faults ELSE faults + 1

\* Array.isArray(response)
IsArray(response) == response.kind = "array"

\* result.status === "error"
IsErrorStatus(result) == result.status = "error"

(***************************************************************************)
(* refreshSessionMetadata, session.ts 32-52                                *)
(***************************************************************************)
\* the history/list request of a refresh frame (41-45)
RefreshListReq(f) == [Req("history/list") EXCEPT !.limit = f.limit, !.wd = f.wd]

RefreshApplyMerge(st, content) ==
    setAllSessionMetadata(setIsSessionMetadataLoading(st, FALSE),
        content \o SelectSeq(st.allSessionMetadata,
            LAMBDA m : \A i \in 1..Len(content) : content[i].sessionId # m.sessionId))

\* lines 49-50
RefreshApply(st, content) ==
    setAllSessionMetadata(setIsSessionMetadataLoading(st, FALSE), content)

refreshSessionMetadata_start(t) ==
    /\ At(t, "refresh", "start")
    /\ UNCHANGED <<session, config, remote, nextId, opsStarted, faults, text, derived>>
    /\ Request(t, [Top(t) EXCEPT !.pc = "await_list"], RefreshListReq(Top(t)))

refreshSessionMetadata_onList(t) ==
    /\ Awaiting(t, "refresh", "await_list")
    /\ UNCHANGED <<config, remote, nextId, opsStarted, text, derived>>
    /\ \E o \in TaggedOutcomes :
        /\ Count(o)
        /\ LET result == Tagged(o, ListRemote(remote, Top(t).limit, Top(t).wd))
           IN  IF IsErrorStatus(result)
               THEN /\ session' = session
                    /\ ReturnIn(Answered(t, o), t, Top(t), "rejected", <<>>)
               ELSE /\ session' = RefreshApply(session, result.content)
                    /\ ReturnIn(Answered(t, o), t, Top(t), "fulfilled", result.content)

(***************************************************************************)
(* deleteSession, session.ts 54-72                                         *)
(***************************************************************************)
deleteSession_startSavesCurrent(t) ==
    /\ At(t, "delete", "start")
    /\ UNCHANGED <<config, remote, nextId, opsStarted, faults, text, derived>>
    /\ LET f == Top(t)
           st == deleteSessionMetadata(session, f.id)
           g == [f EXCEPT !.state = st]
       IN  /\ session' = st
           /\ IF g.id = g.state.id
              THEN Call(t, [g EXCEPT !.pc = "after_loadLast"],
                        [Frame("loadLast", "start") EXCEPT !.save = TRUE])
              ELSE Request(t, [g EXCEPT !.pc = "await_delete"],
                           [Req("history/delete") EXCEPT !.id = g.id])

deleteSession_start(t) ==
    /\ At(t, "delete", "start")
    /\ UNCHANGED <<config, remote, nextId, opsStarted, faults, text, derived>>
    /\ LET f == Top(t)
           st == deleteSessionMetadata(session, f.id)      \* optimistic
           g == [f EXCEPT !.state = st]                    \* line 58
       IN  /\ session' = st
           /\ IF g.id = g.state.id
              THEN Call(t, [g EXCEPT !.pc = "after_loadLast"],
                        [Frame("loadLast", "start") EXCEPT !.save = FALSE])
              ELSE Request(t, [g EXCEPT !.pc = "await_delete"],
                           [Req("history/delete") EXCEPT !.id = g.id])

\* line 66, reached when the awaited loadLastSession has settled
deleteSession_afterLoadLast(t) ==
    /\ At(t, "delete", "after_loadLast")
    /\ UNCHANGED <<session, config, remote, nextId, opsStarted, faults, text, derived>>
    /\ Request(t, [Top(t) EXCEPT !.pc = "await_delete"],
               [Req("history/delete") EXCEPT !.id = Top(t).id])

SpawnRefreshNone(thr) == thr

\* void dispatch(refreshSessionMetadata({})): the refresh runs up to its
\* history/list request in a thread of its own
SpawnRefresh(thr) ==
    LET u == FreshTid
        f == [Frame("refresh", "await_list") EXCEPT
                !.pre = session', !.preRemote = remote', !.logStart = 0]
    IN  [v \in DOMAIN thr \cup {u} |->
            IF v = u
            THEN [stack |-> <<f>>, log |-> <<RefreshListReq(f)>>,
                  spawnedBy |-> "deleteSession"]
            ELSE thr[v]]

deleteSession_onDelete(t) ==
    /\ Awaiting(t, "delete", "await_delete")
    /\ UNCHANGED <<session, config, nextId, opsStarted, text, derived>>
    /\ \E o \in TaggedOutcomes :
        /\ Count(o)
        /\ LET result == Tagged(o, <<>>)
           IN  IF IsErrorStatus(result)
               THEN /\ remote' = remote
                    /\ ReturnIn(Answered(t, o), t, Top(t), "rejected", <<>>)
               ELSE /\ remote' = DeleteRemote(remote, Top(t).id)
                    /\ ReturnIn(SpawnRefresh(Answered(t, o)), t, Top(t), "fulfilled", <<>>)

(***************************************************************************)
(* updateSession, session.ts 74-87                                         *)
(***************************************************************************)
updateSession_startNoOptimistic(t) ==
    /\ At(t, "update", "start")
    /\ UNCHANGED <<session, config, remote, nextId, opsStarted, faults, text, derived>>
    /\ Request(t, [Top(t) EXCEPT !.pc = "await_save"],
               [Req("history/save") EXCEPT !.session = Top(t).session])

updateSession_start(t) ==
    /\ At(t, "update", "start")
    /\ UNCHANGED <<config, remote, nextId, opsStarted, faults, text, derived>>
    /\ LET f == Top(t)
       IN  /\ session' = updateSessionMetadata(session, MetaOf(f.session))
           /\ Request(t, [f EXCEPT !.pc = "await_save"],
                      [Req("history/save") EXCEPT !.session = f.session])

\* line 84 awaits the response and does not look at it; line 85
updateSession_onSave(t) ==
    /\ Awaiting(t, "update", "await_save")
    /\ UNCHANGED <<session, config, nextId, opsStarted, text, derived>>
    /\ \E o \in Outcomes :
        /\ Count(o)
        /\ LET f == Top(t)
           IN  IF o = "throw"
               THEN /\ remote' = remote
                    /\ ReturnIn(Answered(t, o), t, f, "rejected", <<>>)
               ELSE /\ remote' = IF o = "success" THEN SaveRemote(remote, f.session)
                                  ELSE remote
                    /\ CallIn(Answered(t, o), t, [f EXCEPT !.pc = "after_refresh"],
                              [Frame("refresh", "start") EXCEPT
                                  !.wd = f.session.workspaceDirectory])

\* the awaited refresh has settled; its action is not unwrapped
updateSession_afterRefresh(t) ==
    /\ At(t, "update", "after_refresh")
    /\ UNCHANGED <<session, config, remote, nextId, opsStarted, faults, text, derived>>
    /\ Return(t, "fulfilled", <<>>)

(***************************************************************************)
(* loadSession and getSession, session.ts 21-30 and 92-114                 *)
(***************************************************************************)
\* how history/load {id} may be answered: a session the store does not
\* hold cannot be loaded
LoadOutcomes(id) == IF HasSession(remote, id) THEN TaggedOutcomes ELSE {"error"}

CountLoad(id, o) == faults' = IF HasSession(remote, id) /\ o # "success"
                              THEN faults + 1 ELSE faults

loadSession_start(t) ==
    /\ At(t, "load", "start")
    /\ UNCHANGED <<session, config, remote, nextId, opsStarted, faults, text, derived>>
    /\ LET f == Top(t)
       IN  IF f.save
           THEN Call(t, [f EXCEPT !.pc = "after_save"],
                     [Frame("saveCurrent", "start") EXCEPT
                        !.openNew = FALSE, !.gen = TRUE])
           ELSE Request(t, [f EXCEPT !.pc = "await_load"],
                        [Req("history/load") EXCEPT !.id = f.id])

\* line 109: unwrapResult(result), then getSession
loadSession_afterSave(t) ==
    /\ At(t, "load", "after_save")
    /\ UNCHANGED <<session, config, remote, nextId, opsStarted, faults, text, derived>>
    /\ LET f == Top(t)
       IN  IF unwrapResultThrows(f.ret)
           THEN Return(t, "rejected", <<>>)
           ELSE Request(t, [f EXCEPT !.pc = "await_load"],
                        [Req("history/load") EXCEPT !.id = f.id])

loadSession_onLoad(t) ==
    /\ Awaiting(t, "load", "await_load")
    /\ UNCHANGED <<config, remote, nextId, opsStarted, text, derived>>
    /\ \E o \in LoadOutcomes(Top(t).id) :
        /\ CountLoad(Top(t).id, o)
        /\ IF o # "success"
           THEN /\ session' = session
                /\ ReturnIn(Answered(t, o), t, Top(t), "rejected", <<>>)
           ELSE /\ session' = newSessionFrom(session, FindSession(remote, Top(t).id))
                /\ ReturnIn(Answered(t, o), t, Top(t), "fulfilled", <<>>)

(***************************************************************************)
(* loadLastSession, session.ts 116-167                                     *)
(***************************************************************************)
\* lines 131-133 and 199-201: the first directory of an array response
WorkspaceOf(response, dflt) ==
    IF IsArray(response) /\ Len(response.content) > 0
    THEN response.content[1] ELSE dflt

ResolvedWorkspaceOneDefault(o, dflt) ==
    IF o = "throw" THEN Undef ELSE WorkspaceOf(Tagged(o, WorkspaceDirs), Undef)

\* lines 128-136 and 196-204: the directory after the try/catch around the
\* getWorkspaceDirs request answered with o; a rejected request leaves dflt
ResolvedWorkspace(o, dflt) ==
    IF o = "throw" THEN dflt ELSE WorkspaceOf(Tagged(o, WorkspaceDirs), dflt)

loadLastSession_start(t) ==
    /\ At(t, "loadLast", "start")
    /\ UNCHANGED <<session, config, remote, nextId, opsStarted, faults, text, derived>>
    /\ Request(t, [Top(t) EXCEPT !.pc = "await_gwd", !.state = session],
               Req("getWorkspaceDirs"))

\* state.session.id && shouldSaveCurrentSession; a session id is a non-empty string
ShouldSave(f) == f.state.id # 0 /\ f.save

loadLastSession_onWorkspaceDirs(t) ==
    /\ Awaiting(t, "loadLast", "await_gwd")
    /\ UNCHANGED <<session, config, remote, nextId, opsStarted, text, derived>>
    /\ \E o \in Outcomes :
        /\ Count(o)
        /\ LET f == Top(t)
               wd == ResolvedWorkspace(o, Undef)
               g == [f EXCEPT !.wd = wd]
           IN  IF ShouldSave(f)
               THEN CallIn(Answered(t, o), t, [g EXCEPT !.pc = "after_save"],
                           [Frame("saveCurrent", "start") EXCEPT
                              !.openNew = FALSE, !.gen = TRUE])
               ELSE CallIn(Answered(t, o), t, [g EXCEPT !.pc = "after_refresh"],
                           [Frame("refresh", "start") EXCEPT !.limit = 1, !.wd = wd])

\* lines 140-153: the saveCurrentSession action is not unwrapped
loadLastSession_afterSave(t) ==
    /\ At(t, "loadLast", "after_save")
    /\ UNCHANGED <<session, config, remote, nextId, opsStarted, faults, text, derived>>
    /\ LET f == Top(t)
       IN  Call(t, [f EXCEPT !.pc = "after_refresh", !.saved = f.ret.status],
                [Frame("refresh", "start") EXCEPT !.limit = 1, !.wd = f.wd])

\* lines 156-165: metadataResult.payload is undefined for a rejected action,
\* and metadata?.[0] is then undefined as for an empty list
loadLastSession_afterRefresh(t) ==
    /\ At(t, "loadLast", "after_refresh")
    /\ UNCHANGED <<config, remote, opsStarted, faults, text, derived>>
    /\ LET f == Top(t)
           metadata == f.ret.payload
       IN  IF Len(metadata) > 0
           THEN /\ Request(t, [f EXCEPT !.pc = "await_load", !.id = metadata[1].sessionId],
                           [Req("history/load") EXCEPT !.id = metadata[1].sessionId])
                /\ UNCHANGED <<session, nextId>>
           ELSE /\ session' = newSessionEmpty(session, nextId)
                /\ nextId' = nextId + 1
                /\ Return(t, "fulfilled", <<>>)

loadLastSession_onLoad(t) ==
    /\ Awaiting(t, "loadLast", "await_load")
    /\ UNCHANGED <<config, remote, nextId, opsStarted, text, derived>>
    /\ \E o \in LoadOutcomes(Top(t).id) :
        /\ CountLoad(Top(t).id, o)
        /\ IF o # "success"
           THEN /\ session' = session
                /\ ReturnIn(Answered(t, o), t, Top(t), "rejected", <<>>)
           ELSE /\ session' = newSessionFrom(session, FindSession(remote, Top(t).id))
                /\ ReturnIn(Answered(t, o), t, Top(t), "fulfilled", <<>>)

(***************************************************************************)
(* saveCurrentSession, session.ts 183-265                                  *)
(***************************************************************************)
\* line 191
HistoryIsEmpty(st) == Len(st.history) = 0

\* lines 217-219: the content of the first assistant message, if any
AssistantResponse(history) ==
    LET a == SelectSeq(history, LAMBDA h : h.role = "assistant")
    IN  IF a = <<>> THEN <<>> ELSE a[1].content

NeedsDescribeIgnoresGenerate(f) ==
    /\ f.state.title = NEW_SESSION_TITLE
    /\ ~config.disableSessionTitles /\ config.selectedChatModel
    /\ AssistantResponse(f.state.history) # <<>>

\* lines 213-221: whether chatDescriber/describe is asked for a title
NeedsDescribe(f) ==
    /\ f.state.title = NEW_SESSION_TITLE
    /\ ~config.disableSessionTitles /\ config.selectedChatModel
    /\ AssistantResponse(f.state.history) # <<>>
    /\ f.gen

\* lines 229-231
TitleAfterDescribe(title, result) ==
    IF result.status = "success" /\ result.content # <<>>
    THEN result.content ELSE title

\* allSessionMetadata.find((m) => m.sessionId === id)?.title, empty when absent
MetadataTitle(meta, id) ==
    LET found == SelectSeq(meta, LAMBDA m : m.sessionId = id)
    IN  IF found = <<>> THEN <<>> ELSE found[1].title

FallbackTitleNoSentinel(title, state, meta) ==
    LET t1 == IF state.title = NEW_SESSION_TITLE /\ title = NEW_SESSION_TITLE
              THEN getChatTitleFromMessage(state.history[1]) ELSE title
    IN  IF Len(t1) = 0 /\ MetadataTitle(meta, state.id) # <<>>
        THEN MetadataTitle(meta, state.id) ELSE t1

\* lines 237-253: the title after the fallbacks
FallbackTitle(title, state, meta) ==
    LET t1 == IF state.title = NEW_SESSION_TITLE /\ title = NEW_SESSION_TITLE
              THEN getChatTitleFromMessage(state.history[1]) ELSE title
        t2 == IF Len(t1) = 0 /\ MetadataTitle(meta, state.id) # <<>>
              THEN MetadataTitle(meta, state.id) ELSE t1
    IN  IF Len(t2) = 0 THEN NEW_SESSION_TITLE ELSE t2

SessionToSaveFromStore(f, title) ==
    [sessionId |-> session.id, title |-> title,
     workspaceDirectory |-> f.wd, history |-> session.history]

\* lines 255-260
SessionToSave(f, title) ==
    [sessionId |-> f.state.id, title |-> title,
     workspaceDirectory |-> f.wd, history |-> f.state.history]

saveCurrentSession_startOpensFirst(t) ==
    /\ At(t, "saveCurrent", "start")
    /\ UNCHANGED <<config, remote, opsStarted, faults, text, derived>>
    /\ IF HistoryIsEmpty(session)
       THEN /\ session' = IF Top(t).openNew THEN newSessionEmpty(session, nextId)
                          ELSE session
            /\ nextId' = IF Top(t).openNew THEN nextId + 1 ELSE nextId
            /\ Return(t, "fulfilled", <<>>)
       ELSE /\ UNCHANGED <<session, nextId>>
            /\ Request(t, [Top(t) EXCEPT !.pc = "await_gwd", !.state = session],
                       Req("getWorkspaceDirs"))

saveCurrentSession_start(t) ==
    /\ At(t, "saveCurrent", "start")
    /\ UNCHANGED <<session, config, remote, nextId, opsStarted, faults, text, derived>>
    /\ IF HistoryIsEmpty(session)
       THEN Return(t, "fulfilled", <<>>)
       ELSE Request(t, [Top(t) EXCEPT !.pc = "await_gwd", !.state = session],
                    Req("getWorkspaceDirs"))

\* lines 197-262 when no title is asked for, 197-228 when one is
saveCurrentSession_onWorkspaceDirs(t) ==
    /\ Awaiting(t, "saveCurrent", "await_gwd")
    /\ UNCHANGED <<config, remote, opsStarted, text, derived>>
    /\ \E o \in Outcomes :
        /\ Count(o)
        /\ LET f == Top(t)
               wd == ResolvedWorkspace(o, "")
               g == [f EXCEPT !.wd = wd, !.title = f.state.title,
                              !.opened = IF f.openNew THEN nextId ELSE 0]
               st == IF f.openNew THEN newSessionEmpty(session, nextId) ELSE session
           IN  /\ session' = st
               /\ nextId' = IF f.openNew THEN nextId + 1 ELSE nextId
               /\ IF NeedsDescribe(g)
                  THEN RequestIn(Answered(t, o), t, [g EXCEPT !.pc = "await_describe"],
                                 Req("chatDescriber/describe"))
                  ELSE LET title == FallbackTitle(g.title, g.state, st.allSessionMetadata)
                       IN  CallIn(Answered(t, o), t,
                                  [g EXCEPT !.pc = "after_update", !.title = title],
                                  [Frame("update", "start") EXCEPT
                                      !.session = SessionToSave(g, title)])

DescribeContents == {<<>>, DescribedTitle}

\* lines 229-262
saveCurrentSession_onDescribe(t) ==
    /\ Awaiting(t, "saveCurrent", "await_describe")
    /\ UNCHANGED <<session, config, remote, nextId, opsStarted, text, derived>>
    /\ \E o \in Outcomes, c \in DescribeContents :
        /\ Count(o)
        /\ LET f == Top(t)
               described == IF o = "throw" THEN f.title
                            ELSE TitleAfterDescribe(f.title, Tagged(o, c))
               title == FallbackTitle(described, f.state, session.allSessionMetadata)
           IN  CallIn(AnsweredWith(t, o, IF o = "throw" THEN <<>> ELSE c), t,
                      [f EXCEPT !.pc = "after_update", !.title = title],
                      [Frame("update", "start") EXCEPT
                          !.session = SessionToSave(f, title)])

\* line 263: unwrapResult(result)
saveCurrentSession_afterUpdate(t) ==
    /\ At(t, "saveCurrent", "after_update")
    /\ UNCHANGED <<session, config, remote, nextId, opsStarted, faults, text, derived>>
    /\ IF unwrapResultThrows(Top(t).ret)
       THEN Return(t, "rejected", <<>>)
       ELSE Return(t, "fulfilled", <<>>)

(***************************************************************************)
(* The UI dispatches the thunks, one operation at a time.                  *)
(***************************************************************************)
UiThreads == {u \in DOMAIN threads : threads[u].spawnedBy = "ui"}

CanDispatch == cur = 0 /\ opsStarted < MaxOps /\ UiThreads = {}

Start(f) ==
    LET u == FreshTid
    IN  /\ CanDispatch
        /\ threads' = [v \in DOMAIN threads \cup {u} |->
              IF v = u
              THEN [stack |-> <<[f EXCEPT !.pre = session, !.preRemote = remote]>>,
                    log |-> <<>>, spawnedBy |-> "ui"]
              ELSE threads[v]]
        /\ cur' = u
        /\ opsStarted' = opsStarted + 1
        /\ last' = NoLast
        /\ UNCHANGED <<session, config, remote, nextId, faults, text, derived>>

\* the session ids the UI can name: those listed and the active one
KnownIds == {session.allSessionMetadata[i].sessionId :
                i \in 1..Len(session.allSessionMetadata)} \cup {session.id}

DispatchRefresh ==
    \E arg \in {<<NoLimit, Undef>>, <<1, "w">>} :
        Start([Frame("refresh", "start") EXCEPT !.limit = arg[1], !.wd = arg[2]])

DispatchDelete ==
    \E id \in KnownIds : Start([Frame("delete", "start") EXCEPT !.id = id])

\* the user renames a stored session
DispatchUpdate ==
    \E i \in 1..Len(remote) :
        Start([Frame("update", "start") EXCEPT
                !.session = [remote[i] EXCEPT !.title = EditedTitle]])

DispatchLoad ==
    \E id \in KnownIds, save \in BOOLEAN :
        Start([Frame("load", "start") EXCEPT !.id = id, !.save = save])

DispatchLoadLast ==
    \E save \in BOOLEAN : Start([Frame("loadLast", "start") EXCEPT !.save = save])

DispatchSaveCurrent ==
    \E openNew \in BOOLEAN, gen \in BOOLEAN :
        Start([Frame("saveCurrent", "start") EXCEPT !.openNew = openNew, !.gen = gen])

(***************************************************************************)
(* Initial states: a remote store, and an active session that is a stored  *)
(* one as loaded, a new one, or one saved earlier under a generated title. *)
(***************************************************************************)
DefaultConfig == [disableSessionTitles |-> FALSE, selectedChatModel |-> TRUE]
Configs == [disableSessionTitles : BOOLEAN, selectedChatModel : BOOLEAN]

\* the configuration is read only when an assistant message has content
ConfigsFor(h) == IF AssistantResponse(h) # <<>> THEN Configs ELSE {DefaultConfig}

StoreOrders == {Descending(S) : S \in SUBSET StoredIds}

Ids(order) == {order[i] : i \in 1..Len(order)}

ActiveChoices(order) ==
    {[id |-> i, title |-> StoredTitle(i), history |-> HistUser, cfg |-> DefaultConfig] :
        i \in Ids(order)}
    \cup {[id |-> NumStored + 1, title |-> NEW_SESSION_TITLE, history |-> HistEmpty,
           cfg |-> DefaultConfig]}
    \cup UNION {{[id |-> NumStored + 1, title |-> NEW_SESSION_TITLE, history |-> h,
                  cfg |-> c] : c \in ConfigsFor(h)} : h \in NonEmptyHistories}
    \cup UNION {{[id |-> i, title |-> NEW_SESSION_TITLE, history |-> h, cfg |-> c] :
                    i \in Ids(order), c \in ConfigsFor(h)} : h \in BlankFirstHistories}

Init ==
    \E order \in StoreOrders :
      \E a \in ActiveChoices(order) :
        /\ remote = SeqMap(StoredSession, order)
        /\ session = [id |-> a.id, title |-> a.title, history |-> a.history,
                      allSessionMetadata |-> ListRemote(remote, NoLimit, Undef),
                      isSessionMetadataLoading |-> TRUE]
        /\ config = a.cfg
        /\ threads = << >>
        /\ cur = 0
        /\ nextId = NumStored + 2
        /\ opsStarted = 0
        /\ faults = 0
        /\ last = NoLast
        /\ text = <<>>
        /\ derived = <<>>

Next ==
    \/ DispatchRefresh
    \/ DispatchDelete
    \/ DispatchUpdate
    \/ DispatchLoad
    \/ DispatchLoadLast
    \/ DispatchSaveCurrent
    \/ \E t \in DOMAIN threads : refreshSessionMetadata_start(t)
    \/ \E t \in DOMAIN threads : refreshSessionMetadata_onList(t)
    \/ \E t \in DOMAIN threads : deleteSession_start(t)
    \/ \E t \in DOMAIN threads : deleteSession_afterLoadLast(t)
    \/ \E t \in DOMAIN threads : deleteSession_onDelete(t)
    \/ \E t \in DOMAIN threads : updateSession_start(t)
    \/ \E t \in DOMAIN threads : updateSession_onSave(t)
    \/ \E t \in DOMAIN threads : updateSession_afterRefresh(t)
    \/ \E t \in DOMAIN threads : loadSession_start(t)
    \/ \E t \in DOMAIN threads : loadSession_afterSave(t)
    \/ \E t \in DOMAIN threads : loadSession_onLoad(t)
    \/ \E t \in DOMAIN threads : loadLastSession_start(t)
    \/ \E t \in DOMAIN threads : loadLastSession_onWorkspaceDirs(t)
    \/ \E t \in DOMAIN threads : loadLastSession_afterSave(t)
    \/ \E t \in DOMAIN threads : loadLastSession_afterRefresh(t)
    \/ \E t \in DOMAIN threads : loadLastSession_onLoad(t)
    \/ \E t \in DOMAIN threads : saveCurrentSession_start(t)
    \/ \E t \in DOMAIN threads : saveCurrentSession_onWorkspaceDirs(t)
    \/ \E t \in DOMAIN threads : saveCurrentSession_onDescribe(t)
    \/ \E t \in DOMAIN threads : saveCurrentSession_afterUpdate(t)

Spec == Init /\ [][Next]_vars

TypeOK ==
    /\ cur \in DOMAIN threads \cup {0}
    /\ opsStarted \in 0..MaxOps
    /\ faults \in 0..MaxFaults

(***************************************************************************)
(* The title deriver on its own: a text is drawn, then its title derived.  *)
(***************************************************************************)
Alphabet == <<"a", "b", "c">>

\* a line of n letters, no two neighbours alike
Pattern(n) == [i \in 1..n |-> Alphabet[(i % 3) + 1]]

LineLens == (0..ShortLen) \cup ((MAX_TITLE_LENGTH - 1)..(MAX_TITLE_LENGTH + ExtraLen))

Lines ==
    {Pattern(n) : n \in LineLens}
    \cup {<<" ">>, <<" ", "\t">>, <<" ", "a", " ">>}

RECURSIVE JoinLines(_)
JoinLines(ls) ==
    IF Len(ls) = 1 THEN ls[1] ELSE ls[1] \o <<"\n">> \o JoinLines(Tail(ls))

Texts == UNION {{JoinLines(ls) : ls \in [1..k -> Lines]} : k \in 1..MaxLines}

InitTitle ==
    /\ text \in Texts
    /\ derived = <<>>
    /\ session = NoState
    /\ config = DefaultConfig
    /\ remote = <<>>
    /\ threads = << >>
    /\ cur = 0
    /\ nextId = 1
    /\ opsStarted = 0
    /\ faults = 0
    /\ last = NoLast

DeriveTitle ==
    /\ derived = <<>>
    /\ derived' = <<getChatTitleFromMessage(Msg("user", text))>>
    /\ UNCHANGED <<session, config, remote, threads, cur, nextId, opsStarted,
                   faults, last, text>>

NextTitle == DeriveTitle

SpecTitle == InitTitle /\ [][NextTitle]_vars

(***************************************************************************)
(* Properties.                                                             *)
(***************************************************************************)
LogHas(log, type) == \E i \in 1..Len(log) : log[i].type = type

LogAnswered(log, type, resps) ==
    \E i \in 1..Len(log) : log[i].type = type /\ log[i].resp \in resps

SameActive(a, b) == a.id = b.id /\ a.title = b.title /\ a.history = b.history

\* the thunk that has just settled was invoked while its id was the active one
DeletedActive == last.op = "delete" /\ last.frame.id = last.frame.pre.id

\* C1: when deleteSession(id), invoked while id is the active session id, has
\* completed, the active session id is different from id.
C1_DeleteActiveLeavesOtherId ==
    DeletedActive => session.id # last.frame.id

\* C2: when deleteSession(id) is invoked with id active and the remote store
\* holds no session other than id, then at completion the active session is
\* a fresh empty one and no history/load request was issued.
C2_DeleteOnlySessionOpensFresh ==
    (/\ DeletedActive
     /\ \A i \in 1..Len(last.frame.preRemote) :
            last.frame.preRemote[i].sessionId = last.frame.id)
    => /\ session.history = <<>>
       /\ session.title = NEW_SESSION_TITLE
       /\ ~LogHas(last.log, "history/load")

\* C3: saveCurrentSession invoked while the active history is empty issues no
\* messenger request, leaves the store and the remote store as they were and
\* is fulfilled, whatever openNewSession and generateTitle are.
C3_SaveEmptyHistoryIsNoop ==
    (last.op = "saveCurrent" /\ Len(last.frame.pre.history) = 0)
    => /\ last.status = "fulfilled"
       /\ last.log = <<>>
       /\ session = last.frame.pre
       /\ remote = last.frame.preRemote

C3_Witness ==
    /\ last.op = "saveCurrent" /\ Len(last.frame.pre.history) = 0
    /\ last.frame.openNew /\ last.frame.gen

\* C4: in the step in which refreshSessionMetadata is fulfilled,
\* allSessionMetadata becomes exactly the list history/list answered and the
\* loading flag false; when history/list answers with error status the thunk
\* is rejected and the store is left as it was.
C4_RefreshReplacesMetadata ==
    [][last'.op = "refresh" =>
        /\ last'.status = "fulfilled" =>
            /\ session'.allSessionMetadata = last'.payload
            /\ last'.payload = ListRemote(remote, last'.frame.limit, last'.frame.wd)
            /\ ~session'.isSessionMetadataLoading
        /\ last'.log[Len(last'.log)].resp = "error" => last'.status = "rejected"
        /\ last'.status = "rejected" => session' = session]_vars

C4_Witness ==
    /\ last.op = "refresh" /\ last.status = "fulfilled"
    /\ \E i \in 1..Len(last.frame.pre.allSessionMetadata) :
         \A j \in 1..Len(session.allSessionMetadata) :
            session.allSessionMetadata[j].sessionId
                # last.frame.pre.allSessionMetadata[i].sessionId

\* C5: if the history/save request of updateSession is answered with error
\* status, updateSession is rejected.
C5_SaveErrorRejectsUpdate ==
    (last.op = "update" /\ LogAnswered(last.log, "history/save", {"error"}))
    => last.status = "rejected"

\* C6: in loadSession with saveCurrentSession=true, if the persist step of the
\* save-current cycle fails remotely, loadSession is rejected, no history/load
\* request is issued and the active session is not replaced.
C6_LoadAbortsOnFailedSave ==
    (/\ last.op = "load" /\ last.frame.save
     /\ LogAnswered(last.log, "history/save", {"error", "throw"}))
    => /\ last.status = "rejected"
       /\ ~LogHas(last.log, "history/load")
       /\ SameActive(session, last.frame.pre)

\* C7: in loadLastSession with saveCurrentSession=true, if the save-current
\* cycle fails, loadLastSession is rejected, issues no history/list (limit 1)
\* or history/load request and does not replace the active session.
C7_LoadLastAbortsOnFailedSave ==
    (last.op = "loadLast" /\ last.frame.save /\ last.frame.saved = "rejected")
    => /\ last.status = "rejected"
       /\ ~LogHas(last.log, "history/load")
       /\ \A i \in 1..Len(last.log) :
            ~(last.log[i].type = "history/list" /\ last.log[i].limit = 1)
       /\ SameActive(session, last.frame.pre)

\* C8: if the history/list request of loadLastSession is answered with error
\* status, loadLastSession is rejected and the active session is not replaced.
C8_ListErrorRejectsLoadLast ==
    (/\ last.op = "loadLast"
     /\ \E i \in 1..Len(last.log) :
            /\ last.log[i].type = "history/list" /\ last.log[i].limit = 1
            /\ last.log[i].resp = "error")
    => /\ last.status = "rejected"
       /\ SameActive(session, last.frame.pre)

\* the saveCurrentSession frame of thread t that has just dispatched
\* updateSession, if it has
SavingNow(t) ==
    LET stk == threads[t].stack
        n == Len(stk)
    IN  n >= 2 /\ stk[n].op = "update" /\ stk[n].pc = "start"
               /\ stk[n - 1].op = "saveCurrent"

Saver(t) == threads[t].stack[Len(threads[t].stack) - 1]
ToSave(t) == threads[t].stack[Len(threads[t].stack)].session

\* no title came back from chatDescriber/describe in this save-current cycle
NotDescribed(t) ==
    ~LogAnswered(SubSeq(threads[t].log, Saver(t).logStart + 1, Len(threads[t].log)),
                 "chatDescriber/describe", {"success"})

\* the first message has no line with a visible character
FirstMessageBlank(f) ==
    \A i \in 1..Len(f.state.history[1].content) :
        f.state.history[1].content[i] \in Whitespace

\* the non-empty titles the metadata holds for a session id
TitlesListed(id) ==
    {session.allSessionMetadata[i].title : i \in
        {j \in 1..Len(session.allSessionMetadata) :
            /\ session.allSessionMetadata[j].sessionId = id
            /\ session.allSessionMetadata[j].title # <<>>}}

\* C9: every session saveCurrentSession hands to history/save has a non-empty
\* title; when the current title is the sentinel, no title was described and
\* the first message derives an empty title, the persisted title is the
\* non-empty metadata title of that session id if there is one and the
\* sentinel otherwise.
C9_SavedTitleNeverEmpty ==
    \A t \in DOMAIN threads :
        SavingNow(t) =>
            /\ ToSave(t).title # <<>>
            /\ (/\ Saver(t).state.title = NEW_SESSION_TITLE
                /\ NotDescribed(t)
                /\ FirstMessageBlank(Saver(t)))
               => IF TitlesListed(Saver(t).state.id) = {}
                  THEN ToSave(t).title = NEW_SESSION_TITLE
                  ELSE ToSave(t).title \in TitlesListed(Saver(t).state.id)

C9_Witness ==
    \E t \in DOMAIN threads :
        /\ SavingNow(t)
        /\ Saver(t).state.title = NEW_SESSION_TITLE
        /\ NotDescribed(t)
        /\ FirstMessageBlank(Saver(t))
        /\ TitlesListed(Saver(t).state.id) = {}
        /\ ToSave(t).title = NEW_SESSION_TITLE

(***************************************************************************)
(* The title deriver, stated on the positions of the text.                 *)
(***************************************************************************)
\* the lines of a text as pairs <<first, last>> of positions
LineBreaks(t) == {0, Len(t) + 1} \cup {i \in 1..Len(t) : t[i] = "\n"}

Segments(t) ==
    {<<a + 1, b - 1>> : <<a, b>> \in
        {p \in LineBreaks(t) \X LineBreaks(t) :
            p[1] < p[2] /\ ~\E c \in LineBreaks(t) : p[1] < c /\ c < p[2]}}

\* the lines with a visible character
VisibleSegments(t) ==
    {sg \in Segments(t) : \E i \in sg[1]..sg[2] : t[i] \notin Whitespace}

LastSegment(t) ==
    CHOOSE sg \in VisibleSegments(t) : \A r \in VisibleSegments(t) : r[1] <= sg[1]

LastNonBlankLine(t) == SubSeq(t, LastSegment(t)[1], LastSegment(t)[2])

\* the text without its trailing blank lines
TrimmedSource(t) == SubSeq(t, 1, LastSegment(t)[2])

Prefix(t, n) == SubSeq(t, 1, IF n < Len(t) THEN n ELSE Len(t))

Ellipsis == <<".", ".", ".">>

\* C10 as stated: for any source text longer than 100 the derived title has
\* length exactly 100, ends in "..." and starts with the first 97 characters
\* of the source once trailing blank lines are trimmed; a last non-blank line
\* of at most 100 characters is returned unchanged; a text with no non-blank
\* line yields the empty title.
C10_TitleOfLongText ==
    derived # <<>> =>
        LET segs == VisibleSegments(text)
            line == LastNonBlankLine(text)
        IN  /\ Len(text) > 100 =>
                /\ Len(derived[1]) = 100
                /\ SubSeq(derived[1], 98, 100) = Ellipsis
                /\ segs # {}
                /\ Prefix(derived[1], 97) = Prefix(TrimmedSource(text), 97)
            /\ (segs # {} /\ Len(line) <= 100) => derived[1] = line
            /\ segs = {} => derived[1] = <<>>

\* C10 amended: when the last non-blank line of the text is longer than 100,
\* the derived title has length exactly 100, ends in "..." and starts with
\* the first 97 characters of that line; a last non-blank line of at most 100
\* characters is returned unchanged; a text with no non-blank line yields the
\* empty title.
C10_TitleOfLongLine ==
    derived # <<>> =>
        LET segs == VisibleSegments(text)
            line == LastNonBlankLine(text)
        IN  /\ (segs # {} /\ Len(line) > 100) =>
                /\ Len(derived[1]) = 100
                /\ SubSeq(derived[1], 98, 100) = Ellipsis
                /\ SubSeq(derived[1], 1, 97) = SubSeq(line, 1, 97)
            /\ (segs # {} /\ Len(line) <= 100) => derived[1] = line
            /\ segs = {} => derived[1] = <<>>

C10_Witness ==
    /\ derived # <<>>
    /\ VisibleSegments(text) # {}
    /\ Len(LastNonBlankLine(text)) > 100
    /\ LastSegment(text)[1] > 1
    /\ LastSegment(text)[2] < Len(text)
    /\ Len(derived[1]) = 100

(***************************************************************************)
(* Properties of the store between operations.                             *)
(***************************************************************************)
\* no thunk is in flight
Quiescent == DOMAIN threads = {}

MetadataIds(st) ==
    {st.allSessionMetadata[i].sessionId : i \in 1..Len(st.allSessionMetadata)}

\* C11: whenever no operation is in flight, the active session id is the id
\* of a session that was never persisted or the sessionId of an entry of
\* allSessionMetadata; a session the remote store holds has been persisted.
C11_ActiveIdListedOrUnsaved ==
    (Quiescent /\ HasSession(remote, session.id))
    => session.id \in MetadataIds(session)

\* the threads a deleteSession has spawned
SpawnedThreads(thr) == {u \in DOMAIN thr : thr[u].spawnedBy = "deleteSession"}

\* C12: in the step in which deleteSession(id) settles after its
\* history/delete request was answered with error status, deleteSession is
\* rejected, no refresh is spawned, and allSessionMetadata holds no entry
\* with sessionId id, whether or not id was the active session.
C12_DeleteErrorKeepsRemoval ==
    [][(/\ last'.op = "delete"
        /\ LogAnswered(last'.log, "history/delete", {"error"}))
       => /\ last'.status = "rejected"
          /\ SpawnedThreads(threads') \subseteq SpawnedThreads(threads)
          /\ last'.frame.id \notin MetadataIds(session')]_vars

(***************************************************************************)
(* The workspace directory lookup.                                         *)
(***************************************************************************)
\* the thunk that has just settled asked getWorkspaceDirs first, and how that
\* request was answered
LookupAnswer == last.log[1].resp

LookedUp(op) ==
    /\ last.op = op /\ Len(last.log) > 0
    /\ last.log[1].type = "getWorkspaceDirs"

\* C13: when getWorkspaceDirs answers successfully with a non-empty sequence
\* of directories, loadLastSession issues history/list with limit 1 and
\* workspaceDirectory equal to the first directory, and saveCurrentSession
\* persists the session with workspaceDirectory equal to the first directory.
C13_WorkspaceIsFirstDirectory ==
    /\ (LookedUp("loadLast") /\ LookupAnswer = "success") =>
          \E i \in 1..Len(last.log) :
              /\ last.log[i].type = "history/list" /\ last.log[i].limit = 1
              /\ last.log[i].wd = WorkspaceDirs[1]
    /\ (LookedUp("saveCurrent") /\ LookupAnswer = "success") =>
          \E i \in 1..Len(last.log) :
              /\ last.log[i].type = "history/save"
              /\ last.log[i].session.workspaceDirectory = WorkspaceDirs[1]

\* every request of the settled thunk but its lookup was answered successfully
OnlyLookupFailed == \A i \in 2..Len(last.log) : last.log[i].resp = "success"

\* C14: a failed getWorkspaceDirs lookup (error status or rejected request)
\* is never fatal: loadLastSession goes on to history/list with limit 1 and
\* workspaceDirectory undefined, saveCurrentSession goes on to persist the
\* session with workspaceDirectory "", and neither is rejected when no other
\* request fails.
C14_LookupFailureNotFatal ==
    /\ (LookedUp("loadLast") /\ LookupAnswer \in {"error", "throw"}) =>
          /\ \E i \in 1..Len(last.log) :
                /\ last.log[i].type = "history/list" /\ last.log[i].limit = 1
                /\ last.log[i].wd = Undef
          /\ OnlyLookupFailed => last.status = "fulfilled"
    /\ (LookedUp("saveCurrent") /\ LookupAnswer \in {"error", "throw"}) =>
          /\ \E i \in 1..Len(last.log) :
                /\ last.log[i].type = "history/save"
                /\ last.log[i].session.workspaceDirectory = ""
          /\ OnlyLookupFailed => last.status = "fulfilled"

C14_Witness ==
    /\ LookedUp("saveCurrent") /\ LookupAnswer = "throw"
    /\ LogAnswered(last.log, "history/save", {"success"})
    /\ last.status = "fulfilled"

(***************************************************************************)
(* Operations in flight together: the UI dispatches an operation while     *)
(* others await their responses. Every request is answered successfully.   *)
(***************************************************************************)
MaxRaceOps == 2      \* operations the UI dispatches in one behaviour of the race

StartRace(f) ==
    LET u == FreshTid
    IN  /\ cur = 0 /\ opsStarted < MaxRaceOps
        /\ threads' = [v \in DOMAIN threads \cup {u} |->
              IF v = u
              THEN [stack |-> <<[f EXCEPT !.pre = session, !.preRemote = remote]>>,
                    log |-> <<>>, spawnedBy |-> "ui"]
              ELSE threads[v]]
        /\ cur' = u
        /\ opsStarted' = opsStarted + 1
        /\ last' = NoLast
        /\ UNCHANGED <<session, config, remote, nextId, faults, text, derived>>

\* the session id the racing operations are about: the most recent one
RaceId == NumStored

RaceSaveCurrent ==
    StartRace([Frame("saveCurrent", "start") EXCEPT !.openNew = TRUE, !.gen = TRUE])

RaceLoad ==
    StartRace([Frame("load", "start") EXCEPT !.id = RaceId, !.save = FALSE])

RaceDelete == StartRace([Frame("delete", "start") EXCEPT !.id = RaceId])

\* the user renames the session, as the UI holds it
RaceUpdate ==
    StartRace([Frame("update", "start") EXCEPT
                !.session = [StoredSession(RaceId) EXCEPT !.title = EditedTitle]])

\* the active session is a stored one as loaded, or a new one with a reply
RaceActive ==
    {[id |-> i, title |-> StoredTitle(i), history |-> HistUser] : i \in StoredIds}
    \cup {[id |-> NumStored + 1, title |-> NEW_SESSION_TITLE, history |-> HistLinesAsst]}

InitRace ==
    \E a \in RaceActive :
        /\ remote = SeqMap(StoredSession, Descending(StoredIds))
        /\ session = [id |-> a.id, title |-> a.title, history |-> a.history,
                      allSessionMetadata |-> ListRemote(remote, NoLimit, Undef),
                      isSessionMetadataLoading |-> FALSE]
        /\ config = DefaultConfig
        /\ threads = << >>
        /\ cur = 0
        /\ nextId = NumStored + 2
        /\ opsStarted = 0
        /\ faults = MaxFaults
        /\ last = NoLast
        /\ text = <<>>
        /\ derived = <<>>

NextRace ==
    \/ RaceSaveCurrent
    \/ RaceLoad
    \/ RaceDelete
    \/ RaceUpdate
    \/ \E t \in DOMAIN threads : refreshSessionMetadata_start(t)
    \/ \E t \in DOMAIN threads : refreshSessionMetadata_onList(t)
    \/ \E t \in DOMAIN threads : deleteSession_start(t)
    \/ \E t \in DOMAIN threads : deleteSession_afterLoadLast(t)
    \/ \E t \in DOMAIN threads : deleteSession_onDelete(t)
    \/ \E t \in DOMAIN threads : updateSession_start(t)
    \/ \E t \in DOMAIN threads : updateSession_onSave(t)
    \/ \E t \in DOMAIN threads : updateSession_afterRefresh(t)
    \/ \E t \in DOMAIN threads : loadSession_start(t)
    \/ \E t \in DOMAIN threads : loadSession_onLoad(t)
    \/ \E t \in DOMAIN threads : loadLastSession_start(t)
    \/ \E t \in DOMAIN threads : loadLastSession_onWorkspaceDirs(t)
    \/ \E t \in DOMAIN threads : loadLastSession_afterRefresh(t)
    \/ \E t \in DOMAIN threads : loadLastSession_onLoad(t)
    \/ \E t \in DOMAIN threads : saveCurrentSession_start(t)
    \/ \E t \in DOMAIN threads : saveCurrentSession_onWorkspaceDirs(t)
    \/ \E t \in DOMAIN threads : saveCurrentSession_onDescribe(t)
    \/ \E t \in DOMAIN threads : saveCurrentSession_afterUpdate(t)

SpecRace == InitRace /\ [][NextRace]_vars

\* the requests the save-current cycle of thread t has issued
SaverLog(t) == SubSeq(threads[t].log, Saver(t).logStart + 1, Len(threads[t].log))

\* C15: when saveCurrentSession with openNewSession=true and a non-empty
\* history hands its session to updateSession, the fresh empty session has
\* been activated, and the session handed over has the sessionId and history
\* the active session had when saveCurrentSession was invoked, never those of
\* the fresh session, whatever other operations did at the await points.
C15_SavesSessionOfInvocation ==
    \A t \in DOMAIN threads :
        (SavingNow(t) /\ Saver(t).openNew) =>
            /\ Saver(t).opened # 0
            /\ ~LogHas(SaverLog(t), "history/save")
            /\ ~LogHas(SaverLog(t), "chatDescriber/describe") =>
                  /\ session.id = Saver(t).opened
                  /\ session.history = <<>>
            /\ ToSave(t).sessionId = Saver(t).pre.id
            /\ ToSave(t).history = Saver(t).pre.history
            /\ ToSave(t).sessionId # Saver(t).opened
            /\ ToSave(t).history # <<>>

\* another operation replaced the active session while the title was asked for
C15_Witness ==
    \E t \in DOMAIN threads :
        /\ SavingNow(t) /\ Saver(t).openNew
        /\ session.id \notin {Saver(t).pre.id, Saver(t).opened}
        /\ ToSave(t).sessionId = Saver(t).pre.id

(***************************************************************************)
(* The refresh deleteSession leaves behind.                                *)
(***************************************************************************)
\* thread u is an unscoped refresh whose history/list is not answered yet
PendingUnscopedRefresh(u) ==
    /\ Len(threads[u].stack) = 1 /\ Len(threads[u].log) = 1
    /\ threads[u].stack[1].op = "refresh"
    /\ threads[u].log[1].type = "history/list"
    /\ threads[u].log[1].limit = NoLimit /\ threads[u].log[1].wd = Undef
    /\ threads[u].log[1].resp = "pending"

\* C16: when deleteSession settles after history/delete succeeded, it is
\* fulfilled and leaves behind an unscoped refresh of its own whose
\* history/list is still unanswered; that refresh has no caller, so its
\* rejection reaches no other thunk.
C16_DeleteSpawnsRefresh ==
    /\ (last.op = "delete" /\ LogAnswered(last.log, "history/delete", {"success"})) =>
          /\ last.status = "fulfilled"
          /\ \E u \in SpawnedThreads(threads) :
                /\ PendingUnscopedRefresh(u)
                /\ threads[u].stack[1].pre = session
                /\ threads[u].stack[1].preRemote = remote
    /\ (last.op = "refresh" /\ last.spawnedBy = "deleteSession") =>
          /\ ~last.nested
          /\ last.frame.limit = NoLimit /\ last.frame.wd = Undef

\* the spawned refresh is rejected after deleteSession was fulfilled
C16_Witness ==
    /\ last.op = "refresh" /\ last.spawnedBy = "deleteSession"
    /\ last.status = "rejected"
    /\ Quiescent

(***************************************************************************)
(* The order of the steps of deleteSession and of updateSession.           *)
(***************************************************************************)
\* the positions of the requests of a given type in a log
Positions(log, type) == {i \in 1..Len(log) : log[i].type = type}

\* C17: when deleteSession(id) has settled: the store it read before its
\* first request had no metadata entry for id; its history/delete request is
\* the one request of that type and the last request of the operation, so
\* for an active id every request of the nested loadLastSession was answered
\* and that thunk had settled before; and the operation issued no
\* history/save request.
C17_DeleteOrder ==
    last.op = "delete" =>
        /\ last.frame.id \notin MetadataIds(last.frame.state)
        /\ Positions(last.log, "history/delete") = {Len(last.log)}
        /\ Positions(last.log, "history/save") = {}
        /\ IF DeletedActive
           THEN /\ last.frame.ret.status \in {"fulfilled", "rejected"}
                /\ Len(last.log) >= 3
                /\ last.log[1].type = "getWorkspaceDirs"
                /\ \A i \in 1..(Len(last.log) - 1) : last.log[i].resp # "pending"
           ELSE /\ last.frame.ret.status = "none"
                /\ Len(last.log) = 1

\* the active session had messages to save, and was not saved
C17_Witness ==
    /\ DeletedActive
    /\ last.frame.pre.history # <<>>
    /\ last.frame.id \in MetadataIds(last.frame.pre)
    /\ LogHas(last.log, "history/load")
    /\ last.status = "fulfilled"

\* the metadata entries of a store for a session id
EntriesOf(st, id) ==
    SelectSeq(st.allSessionMetadata, LAMBDA m : m.sessionId = id)

\* C18: within one updateSession(session): when history/save has just been
\* issued and nothing else ran, every metadata entry of session.sessionId
\* carries the title and workspace directory of session; the refresh is
\* dispatched, scoped to session.workspaceDirectory, only once history/save
\* is answered; and updateSession settles only after its history/list was
\* answered, allSessionMetadata then being the list history/list returned.
C18_UpdateOrder ==
    /\ \A t \in DOMAIN threads :
          (/\ Top(t).op = "update" /\ Top(t).pc = "await_save"
           /\ DOMAIN threads = {t} /\ last = NoLast) =>
              /\ threads[t].log[Len(threads[t].log)] =
                    [Req("history/save") EXCEPT !.session = Top(t).session]
              /\ \A i \in 1..Len(EntriesOf(session, Top(t).session.sessionId)) :
                    EntriesOf(session, Top(t).session.sessionId)[i]
                        = MetaOf(Top(t).session)
    /\ \A t \in DOMAIN threads :
          LET stk == threads[t].stack
              n == Len(stk)
          IN  (n >= 2 /\ stk[n].op = "refresh" /\ stk[n - 1].op = "update") =>
                /\ stk[n - 1].pc = "after_refresh"
                /\ stk[n].wd = stk[n - 1].session.workspaceDirectory
                /\ stk[n].limit = NoLimit
                /\ threads[t].log[stk[n - 1].logStart + 1].type = "history/save"
                /\ threads[t].log[stk[n - 1].logStart + 1].resp \in {"success", "error"}
                /\ \A i \in Positions(threads[t].log, "history/list") :
                      i > stk[n - 1].logStart => i > stk[n - 1].logStart + 1
    /\ last.op = "update" =>
          IF LogAnswered(last.log, "history/save", {"throw"})
          THEN last.status = "rejected" /\ Len(last.log) = 1
          ELSE /\ last.status = "fulfilled"
               /\ Len(last.log) = 2
               /\ last.log[1].type = "history/save"
               /\ last.log[2].type = "history/list"
               /\ last.log[2].wd = last.frame.session.workspaceDirectory
               /\ last.log[2].resp # "pending"
               /\ last.frame.ret.status \in {"fulfilled", "rejected"}
               /\ last.log[2].resp = "success" =>
                     /\ session.allSessionMetadata = last.frame.ret.payload
                     /\ session.allSessionMetadata =
                            ListRemote(remote, NoLimit,
                                       last.frame.session.workspaceDirectory)

\* a rename that reached the remote store and came back in the list
C18_Witness ==
    /\ last.op = "update" /\ last.status = "fulfilled" /\ ~last.nested
    /\ last.log[2].resp = "success"
    /\ EntriesOf(session, last.frame.session.sessionId) = <<MetaOf(last.frame.session)>>
    /\ EntriesOf(last.frame.pre, last.frame.session.sessionId)
          # <<MetaOf(last.frame.session)>>
    /\ Len(session.allSessionMetadata) < Len(last.frame.pre.allSessionMetadata)

(***************************************************************************)
(* Title resolution of saveCurrentSession.                                 *)
(***************************************************************************)
\* the describe requests of the save-current cycle of thread t
Described(t) ==
    {SaverLog(t)[i] : i \in Positions(SaverLog(t), "chatDescriber/describe")}

\* the title the first message of the saved history derives
DerivedTitle(t) == getChatTitleFromMessage(Saver(t).state.history[1])

\* C19: when saveCurrentSession hands its session to updateSession: a
\* describe request was issued only if the current title is the sentinel,
\* generateTitle is true, titles are not disabled, a chat model is selected
\* and an assistant message has non-empty content; a describe answered
\* successfully with non-empty content gives the persisted title; after a
\* describe that failed or threw, the persisted title is the one derived from
\* the first message (when that is not empty), and saveCurrentSession is not
\* rejected for it; a non-empty title other than the sentinel is persisted
\* unchanged, without a describe request.
C19_TitlePrecedence ==
    /\ \A t \in DOMAIN threads :
          SavingNow(t) =>
            /\ Described(t) # {} =>
                  /\ Saver(t).state.title = NEW_SESSION_TITLE
                  /\ Saver(t).gen
                  /\ ~config.disableSessionTitles /\ config.selectedChatModel
                  /\ \E i \in 1..Len(Saver(t).state.history) :
                        /\ Saver(t).state.history[i].role = "assistant"
                        /\ Saver(t).state.history[i].content # <<>>
            /\ \A d \in Described(t) :
                  /\ (d.resp = "success" /\ d.content # <<>>) =>
                        ToSave(t).title = d.content
                  /\ (d.resp \in {"error", "throw"} /\ DerivedTitle(t) # <<>>) =>
                        ToSave(t).title = DerivedTitle(t)
            /\ Saver(t).state.title \notin {NEW_SESSION_TITLE, <<>>} =>
                  /\ ToSave(t).title = Saver(t).state.title
                  /\ Described(t) = {}
    /\ (/\ last.op = "saveCurrent" /\ Len(last.log) >= 2
        /\ last.log[2].type = "chatDescriber/describe"
        /\ \A i \in 1..Len(last.log) : i # 2 => last.log[i].resp = "success")
       => last.status = "fulfilled"

\* the describe request was rejected and the first message gave the title
C19_Witness ==
    \E t \in DOMAIN threads :
        /\ SavingNow(t)
        /\ \E d \in Described(t) : d.resp = "throw"
        /\ DerivedTitle(t) # <<>>
        /\ ToSave(t).title = DerivedTitle(t)

(***************************************************************************)
(* Operations on the same session id in flight together.                   *)
(***************************************************************************)
\* thread t waits for the answer to a request as thunk op at pc
Waits(t, op, pc) == Top(t).op = op /\ Top(t).pc = pc

====
